---- MODULE Spec2Model ----
(***************************************************************************)
(* Model of the anonymous voting core (src/src/lib.rs): the vote circuit,  *)
(* the orchestrator VoteSystem with its synchronous and asynchronous       *)
(* vote/verify operations, and the WorkerPool dispatcher.                  *)
(***************************************************************************)
EXTENDS Naturals, Integers, Sequences, FiniteSets, TLC

(***************************************************************************)
(* Bounds of the model.                                                    *)
(***************************************************************************)
\* The prime field F is modelled by the FieldPrimeIndex-th prime.
FieldPrimeIndex == 4
\* Number of concurrent callers of the orchestrator.
NumCallers == 2
\* Total number of vote/verify calls started in one behaviour.
MaxCalls == 2
\* Capacity of the dispatcher queue, scaled down from mpsc::channel(100).
QueueCapacity == 1

\* WorkerPool::new(4)
NumWorkers == 4

SmallPrimes == <<2, 3, 5, 7, 11, 13, 17, 19>>
FieldModulus == SmallPrimes[FieldPrimeIndex]
Field == 0 .. (FieldModulus - 1)

Callers == 1 .. NumCallers
Workers == 1 .. NumWorkers

VARIABLES
    cin,        \* circuit instance handed to the synthesizer (SpecCircuit)
    cout,       \* outcome of synthesizing cin (SpecCircuit)
    ctx,        \* cooperative scheduler: "none", "running" or "shutdown"
    sys,        \* the orchestrator: phase, its snark instance, whether it owns a pool
    keys,       \* the (pk, vk) pair setup returned to the caller
    setupRuns,  \* number of times S::setup has been invoked
    setupRes,   \* what VoteSystem::setup returned
    queue,      \* the mpsc channel buffer of WorkerTask tags
    closed,     \* TRUE once every receiver of the channel is gone
    workers,    \* per worker task: "none", "running" or "cancelled"
    processed,  \* number of tasks the workers have dequeued and logged
    accepted,   \* number of submit_task calls that returned Ok
    call,       \* per caller: the call in flight / last completed call
    ncalls,     \* number of calls started
    gen         \* the generate_nullifier calls made so far (SpecNullifier)

vars == <<cin, cout, ctx, sys, keys, setupRuns, setupRes, queue, closed,
          workers, processed, accepted, call, ncalls, gen>>

(***************************************************************************)
(* Field arithmetic and the constraint system (ark_relations r1cs as used  *)
(* by VoteCircuit::generate_constraints).                                  *)
(***************************************************************************)
FAdd(a, b) == (a + b) % FieldModulus
FNeg(a) == (FieldModulus - (a % FieldModulus)) % FieldModulus
FMul(a, b) == (a * b) % FieldModulus
\* F::from(n)
FFrom(n) == n % FieldModulus

\* A variable of the constraint system: a witness or a constant, by index.
WitnessVar(i) == [kind |-> "witness", idx |-> i]
ConstantVar(i) == [kind |-> "constant", idx |-> i]

\* One term of a linear combination: coefficient times variable.
Plus(v) == [coeff |-> 1, var |-> v]
Minus(v) == [coeff |-> FNeg(1), var |-> v]

EmptyCS == [witness |-> <<>>, constant |-> <<>>, instance |-> <<>>, constraints |-> <<>>]

new_witness_variable(cs, v) == [cs EXCEPT !.witness = Append(@, v)]
new_constant_variable(cs, v) == [cs EXCEPT !.constant = Append(@, v)]
enforce_constraint(cs, a, b, c) ==
    [cs EXCEPT !.constraints = Append(@, [a |-> a, b |-> b, c |-> c])]

VarValue(cs, v) ==
    IF v.kind = "witness" THEN cs.witness[v.idx] ELSE cs.constant[v.idx]

RECURSIVE EvalLC(_, _)
EvalLC(cs, lc) ==
    IF lc = <<>> THEN 0
    ELSE FAdd(FMul(Head(lc).coeff, VarValue(cs, Head(lc).var)), EvalLC(cs, Tail(lc)))

\* cs.is_satisfied(): every constraint a * b = c holds under the assignment.
is_satisfied(cs) ==
    \A i \in 1 .. Len(cs.constraints) :
        LET k == cs.constraints[i]
        IN  FMul(EvalLC(cs, k.a), EvalLC(cs, k.b)) = EvalLC(cs, k.c)

VoteCircuit(vote, nullifier, randomness) ==
    [vote |-> vote, nullifier |-> nullifier, randomness |-> randomness]

\* A slip: the variables are allocated but the constraint is never enforced.
generate_constraints_unconstrained(circuit) ==
    LET cs1 == new_witness_variable(EmptyCS, circuit.vote)
        cs2 == new_constant_variable(cs1, 0)
        cs3 == new_constant_variable(cs2, 1)
        cs5 == new_witness_variable(cs3, circuit.nullifier)
        cs6 == new_witness_variable(cs5, circuit.randomness)
    IN  [ok |-> TRUE, cs |-> cs6]

\* A slip: the vote is allocated as a public input instead of a witness.
generate_constraints_public_vote(circuit) ==
    LET cs1 == new_witness_variable(
                   [EmptyCS EXCEPT !.instance = <<circuit.vote>>], circuit.vote)
        cs2 == new_constant_variable(cs1, 0)
        cs3 == new_constant_variable(cs2, 1)
        vote_var == WitnessVar(1)
        zero == ConstantVar(1)
        one == ConstantVar(2)
        cs4 == enforce_constraint(cs3, <<Plus(vote_var)>>,
                                  <<Plus(vote_var), Minus(one)>>, <<Plus(zero)>>)
        cs5 == new_witness_variable(cs4, circuit.nullifier)
        cs6 == new_witness_variable(cs5, circuit.randomness)
    IN  [ok |-> TRUE, cs |-> cs6]

\* A slip in the second factor: vote * vote = 0 instead of vote * (vote - 1) = 0.
generate_constraints_no_sub(circuit) ==
    LET cs1 == new_witness_variable(EmptyCS, circuit.vote)
        cs2 == new_constant_variable(cs1, 0)
        cs3 == new_constant_variable(cs2, 1)
        vote_var == WitnessVar(1)
        zero == ConstantVar(1)
        cs4 == enforce_constraint(cs3, <<Plus(vote_var)>>, <<Plus(vote_var)>>,
                                  <<Plus(zero)>>)
        cs5 == new_witness_variable(cs4, circuit.nullifier)
        cs6 == new_witness_variable(cs5, circuit.randomness)
    IN  [ok |-> TRUE, cs |-> cs6]

\* VoteCircuit::generate_constraints: Ok(()) with the constraint system built.
\* Every allocation closure returns Ok, so no `?` takes the error branch.
generate_constraints(circuit) ==
    LET cs1 == new_witness_variable(EmptyCS, circuit.vote)
        cs2 == new_constant_variable(cs1, 0)
        cs3 == new_constant_variable(cs2, 1)
        vote_var == WitnessVar(1)
        zero == ConstantVar(1)
        one == ConstantVar(2)
        cs4 == enforce_constraint(cs3, <<Plus(vote_var)>>,
                                  <<Plus(vote_var), Minus(one)>>, <<Plus(zero)>>)
        cs5 == new_witness_variable(cs4, circuit.nullifier)
        cs6 == new_witness_variable(cs5, circuit.randomness)
    IN  [ok |-> TRUE, cs |-> cs6]

(***************************************************************************)
(* Results: Result<S::Proof, VoteSystemError> and Result<bool, ...>.       *)
(***************************************************************************)
\* VoteSystemError
ErrorKinds == {"SnarkError", "SynthesisError", "ProofGenerationError",
               "ProofVerificationError", "InvalidVote", "InvalidNullifier",
               "InternalError"}

NoProof == [params |-> 0, key |-> 0, inputs |-> <<>>, wf |-> FALSE]
NoResult == [tag |-> "none", err |-> "", proof |-> NoProof, b |-> FALSE]
OkUnit == [tag |-> "ok", err |-> "", proof |-> NoProof, b |-> FALSE]
OkProof(p) == [tag |-> "ok", err |-> "", proof |-> p, b |-> FALSE]
OkBool(b) == [tag |-> "ok", err |-> "", proof |-> NoProof, b |-> b]
Err(kind) == [tag |-> "err", err |-> kind, proof |-> NoProof, b |-> FALSE]

\* result.map_err(|e| VoteSystemError::kind(..))
map_err(r, kind) == IF r.tag = "err" THEN Err(kind) ELSE r

(***************************************************************************)
(* The proof-system capability S: SNARK<F> (setup, keygen, prove, verify). *)
(* An instance is identified by the parameters its setup drew; keys carry  *)
(* the parameters of the instance that generated them.                     *)
(***************************************************************************)
NoKeys == [pk |-> [key |-> 0], vk |-> [key |-> 0, ninputs |-> 0]]

\* snark.keygen(): keys bound to the instance's parameters; the verifying key
\* fixes the number of public inputs the circuit declares.
SnarkKeygen(params) ==
    [pk |-> [key |-> params],
     vk |-> [key |-> params,
             ninputs |-> Len(generate_constraints(VoteCircuit(0, 0, 0)).cs.instance)]]

\* snark.prove(pk, circuit, rng): fails when synthesis fails or the witness
\* violates a constraint; otherwise a proof bound to the proving instance,
\* the proving key and the circuit's public inputs.
SnarkProve(params, pk, circuit) ==
    LET r == generate_constraints(circuit)
    IN  IF ~r.ok \/ ~is_satisfied(r.cs)
        THEN Err("backend")
        ELSE OkProof([params |-> params, key |-> pk.key,
                      inputs |-> r.cs.instance, wf |-> TRUE])

\* snark.verify(vk, public_inputs, proof): an error only on malformed inputs;
\* false for a well-formed proof that does not check out under vk.
SnarkVerify(params, vk, public_inputs, proof) ==
    IF ~proof.wf \/ Len(public_inputs) # vk.ninputs
    THEN Err("backend")
    ELSE OkBool(/\ vk.key # 0
                /\ proof.key = vk.key
                /\ proof.params = vk.key
                /\ params = vk.key
                /\ proof.inputs = public_inputs)

(***************************************************************************)
(* VoteSystem: the synchronous operations and the off-loaded closures.     *)
(***************************************************************************)
\* A slip: proving with a freshly set-up instance instead of self.snark.
VoteSystem_vote_fresh(snark, pk, circuit) ==
    map_err(SnarkProve(snark + 1, pk, circuit), "ProofGenerationError")

\* VoteSystem::vote
VoteSystem_vote(snark, pk, circuit) ==
    map_err(SnarkProve(snark, pk, circuit), "ProofGenerationError")

\* A slip: the caller's public inputs are dropped ("simplified" to vec![]).
VoteSystem_verify_no_inputs(snark, vk, public_inputs, proof) ==
    map_err(SnarkVerify(snark, vk, <<>>, proof), "ProofVerificationError")

\* A slip: a proof that does not verify is reported as an error.
VoteSystem_verify_false_is_err(snark, vk, public_inputs, proof) ==
    LET r == SnarkVerify(snark, vk, public_inputs, proof)
    IN  IF r.tag = "ok" /\ ~r.b THEN Err("ProofVerificationError")
        ELSE map_err(r, "ProofVerificationError")

\* VoteSystem::verify
VoteSystem_verify(snark, vk, public_inputs, proof) ==
    map_err(SnarkVerify(snark, vk, public_inputs, proof), "ProofVerificationError")

\* The closure vote_async hands to spawn_blocking: S::setup(&mut rng)?, then
\* snark.prove(&pk, circuit, &mut rng) on the instance just set up.
vote_async_closure(setupOk, fresh, pk, circuit) ==
    IF ~setupOk THEN Err("SnarkError")
    ELSE map_err(SnarkProve(fresh, pk, circuit), "ProofGenerationError")

\* The closure verify_async hands to spawn_blocking: S::setup(&mut thread_rng())?,
\* then snark.verify(&vk, &public_inputs, &proof) on the instance just set up.
verify_async_closure(setupOk, fresh, vk, public_inputs, proof) ==
    IF ~setupOk THEN Err("SnarkError")
    ELSE map_err(SnarkVerify(fresh, vk, public_inputs, proof), "ProofVerificationError")

\* handle.await.map_err(InternalError)? : a JoinError becomes InternalError,
\* otherwise the closure's own result is returned.
join_result(joined, inner) ==
    IF ~joined THEN Err("InternalError") ELSE inner

(***************************************************************************)
(* WorkerPool: the bounded channel and its workers.                        *)
(***************************************************************************)
GenerateProof == "GenerateProof"
VerifyProof == "VerifyProof"

\* WorkerPool::new(size): JoinSet::spawn and tokio::spawn need a running
\* scheduler; without one the first spawn panics and nothing is created.
WorkerPool_new(inRuntime, size) ==
    IF inRuntime
    THEN [panicked |-> FALSE, workers |-> [w \in 1 .. size |-> "running"]]
    ELSE [panicked |-> TRUE, workers |-> [w \in 1 .. size |-> "none"]]

\* A slip: a full queue drops the task and still reports Ok (try_send, error ignored).
submit_task_drop_when_full(isClosed, q, task) ==
    IF isClosed THEN [status |-> "closed", queue |-> q]
    ELSE IF Len(q) < QueueCapacity THEN [status |-> "ok", queue |-> Append(q, task)]
    ELSE [status |-> "ok", queue |-> q]

\* WorkerPool::submit_task, one poll of self.sender.send(task).await: an error
\* once the channel is closed, the task enqueued when a slot is free, and
\* otherwise the sender stays suspended ("full").
submit_task(isClosed, q, task) ==
    IF isClosed THEN [status |-> "closed", queue |-> q]
    ELSE IF Len(q) < QueueCapacity THEN [status |-> "ok", queue |-> Append(q, task)]
    ELSE [status |-> "full", queue |-> q]

\* What submit_task's map_err makes of a SendError.
submit_error == Err("InternalError")

(***************************************************************************)
(* VoteSystem::setup                                                       *)
(***************************************************************************)
SetupFailed(res) ==
    [phase |-> "Failed", snark |-> 0, pool |-> FALSE, keys |-> NoKeys,
     workers |-> [w \in Workers |-> "none"], res |-> res]

\* A slip: the worker pool is created before key generation, so a keygen
\* failure leaves the workers behind.
VoteSystem_setup_pool_first(inRuntime, setupOk, keygenOk, params) ==
    IF ~setupOk THEN SetupFailed(Err("SnarkError"))
    ELSE LET wp == WorkerPool_new(inRuntime, NumWorkers)
         IN  IF wp.panicked
             THEN [SetupFailed(NoResult) EXCEPT !.phase = "Panicked"]
             ELSE IF ~keygenOk
             THEN [SetupFailed(Err("SnarkError")) EXCEPT !.pool = TRUE,
                                                         !.workers = wp.workers]
             ELSE [phase |-> "Ready", snark |-> params, pool |-> TRUE,
                   keys |-> SnarkKeygen(params), workers |-> wp.workers,
                   res |-> OkUnit]

\* VoteSystem::setup: S::setup(rng)?, snark.keygen()?, WorkerPool::new(4), Ok.
VoteSystem_setup(inRuntime, setupOk, keygenOk, params) ==
    IF ~setupOk THEN SetupFailed(Err("SnarkError"))
    ELSE IF ~keygenOk THEN SetupFailed(Err("SnarkError"))
    ELSE LET wp == WorkerPool_new(inRuntime, NumWorkers)
         IN  IF wp.panicked
             THEN [SetupFailed(NoResult) EXCEPT !.phase = "Panicked"]
             ELSE [phase |-> "Ready", snark |-> params, pool |-> TRUE,
                   keys |-> SnarkKeygen(params), workers |-> wp.workers,
                   res |-> OkUnit]

(***************************************************************************)
(* Inputs the callers draw from.                                           *)
(***************************************************************************)
\* Fr::zero(), Fr::one(), Fr::from(2u64)
VoteInputs == {FFrom(0), FFrom(1), FFrom(2)}
NullifierInputs == {FFrom(12345)}
RandomnessInputs == {FFrom(67890)}
CircuitInputs ==
    {VoteCircuit(v, n, r) : v \in VoteInputs, n \in NullifierInputs, r \in RandomnessInputs}
NoCircuit == VoteCircuit(0, 0, 0)

\* A well-formed proof that no prover produced, and an undecodable one.
ForgedProof == [params |-> 0, key |-> 0, inputs |-> <<>>, wf |-> TRUE]
CorruptProof == NoProof

\* vec![] as the tests pass it, and a vector the circuit does not declare.
PublicInputChoices == {<<>>, <<FFrom(1)>>}

IdleCall ==
    [pc |-> "idle", op |-> "none", circuit |-> NoCircuit, pub |-> <<>>,
     proof |-> NoProof, handle |-> NoResult, result |-> NoResult, ret |-> ""]

ProducedProofs ==
    {call[d].result.proof :
        d \in {e \in Callers : /\ call[e].pc = "done"
                               /\ call[e].op \in {"vote", "vote_async"}
                               /\ call[e].result.tag = "ok"}}
ProofChoices == {ForgedProof, CorruptProof} \cup ProducedProofs

TaskOf(op) == IF op = "vote_async" THEN GenerateProof ELSE VerifyProof

(***************************************************************************)
(* Initial state.                                                          *)
(***************************************************************************)
NoSynth == [done |-> FALSE, ok |-> FALSE, sat |-> FALSE]

InitSystem ==
    /\ ctx \in {"none", "running"}
    /\ sys = [phase |-> "Uninitialized", snark |-> 0, pool |-> FALSE]
    /\ keys = NoKeys
    /\ setupRuns = 0
    /\ setupRes = NoResult
    /\ queue = <<>>
    /\ closed = FALSE
    /\ workers = [w \in Workers |-> "none"]
    /\ processed = 0
    /\ accepted = 0
    /\ call = [c \in Callers |-> IdleCall]
    /\ ncalls = 0

Init ==
    /\ cin = NoCircuit
    /\ cout = NoSynth
    /\ gen = <<>>
    /\ InitSystem

InitCircuit ==
    /\ cin \in {VoteCircuit(v, n, r) : v \in Field, n \in Field, r \in Field}
    /\ cout = NoSynth
    /\ gen = <<>>
    /\ InitSystem

systemVars == <<ctx, sys, keys, setupRuns, setupRes, queue, closed, workers,
                processed, accepted, call, ncalls>>

(***************************************************************************)
(* Actions.                                                                *)
(***************************************************************************)
\* circuit.generate_constraints(cs.clone()) followed by cs.is_satisfied().
synthesize ==
    /\ ~cout.done
    /\ LET r == generate_constraints(cin)
       IN  cout' = [done |-> TRUE, ok |-> r.ok, sat |-> r.ok /\ is_satisfied(r.cs)]
    /\ UNCHANGED <<gen, cin, systemVars>>

setup ==
    /\ sys.phase = "Uninitialized"
    /\ \E setupOk \in BOOLEAN, keygenOk \in BOOLEAN :
        LET o == VoteSystem_setup(ctx = "running", setupOk, keygenOk, setupRuns + 1)
        IN  /\ sys' = [phase |-> o.phase, snark |-> o.snark, pool |-> o.pool]
            /\ keys' = o.keys
            /\ workers' = o.workers
            /\ setupRes' = o.res
    /\ setupRuns' = setupRuns + 1
    /\ UNCHANGED <<gen, cin, cout, ctx, queue, closed, processed, accepted, call, ncalls>>

CanStart(c) ==
    /\ sys.phase = "Ready"
    /\ call[c].pc \in {"idle", "done"}
    /\ ncalls < MaxCalls

vote(c) ==
    /\ CanStart(c)
    /\ \E circuit \in CircuitInputs :
        call' = [call EXCEPT ![c] =
                    [IdleCall EXCEPT !.pc = "done", !.op = "vote", !.circuit = circuit,
                                     !.result = VoteSystem_vote(sys.snark, keys.pk, circuit),
                                     !.ret = "sync"]]
    /\ ncalls' = ncalls + 1
    /\ UNCHANGED <<gen, cin, cout, ctx, sys, keys, setupRuns, setupRes, queue, closed,
                   workers, processed, accepted>>

verify(c) ==
    /\ CanStart(c)
    /\ \E public_inputs \in PublicInputChoices, proof \in ProofChoices :
        call' = [call EXCEPT ![c] =
                    [IdleCall EXCEPT !.pc = "done", !.op = "verify",
                                     !.pub = public_inputs, !.proof = proof,
                                     !.result = VoteSystem_verify(sys.snark, keys.vk,
                                                                  public_inputs, proof),
                                     !.ret = "sync"]]
    /\ ncalls' = ncalls + 1
    /\ UNCHANGED <<gen, cin, cout, ctx, sys, keys, setupRuns, setupRes, queue, closed,
                   workers, processed, accepted>>

\* A slip: the result of submit_task is not propagated (no `?`), so the
\* closure is spawned also when the submission failed.
Submit_ignore_error(c, started) ==
    LET s == submit_task(closed, queue, TaskOf(started.op))
    IN  /\ queue' = s.queue
        /\ accepted' = accepted + (IF s.status = "ok" THEN 1 ELSE 0)
        /\ call' = [call EXCEPT ![c] =
                CASE s.status = "full" -> [started EXCEPT !.pc = "sending"]
                  [] OTHER -> [started EXCEPT !.pc = "blocking"]]

\* self.worker_pool.submit_task(task).await? and, once it returned Ok, the
\* spawn_blocking of the closure.
Submit(c, started) ==
    LET s == submit_task(closed, queue, TaskOf(started.op))
    IN  /\ queue' = s.queue
        /\ accepted' = accepted + (IF s.status = "ok" THEN 1 ELSE 0)
        /\ call' = [call EXCEPT ![c] =
                CASE s.status = "ok" -> [started EXCEPT !.pc = "blocking"]
                  [] s.status = "closed" ->
                        [started EXCEPT !.pc = "done", !.result = submit_error,
                                        !.ret = "submit"]
                  [] OTHER -> [started EXCEPT !.pc = "sending"]]

vote_async(c) ==
    /\ CanStart(c)
    /\ \E circuit \in CircuitInputs :
        Submit(c, [IdleCall EXCEPT !.op = "vote_async", !.circuit = circuit])
    /\ ncalls' = ncalls + 1
    /\ UNCHANGED <<gen, cin, cout, ctx, sys, keys, setupRuns, setupRes, closed, workers,
                   processed>>

verify_async(c) ==
    /\ CanStart(c)
    /\ \E public_inputs \in PublicInputChoices, proof \in ProofChoices :
        Submit(c, [IdleCall EXCEPT !.op = "verify_async", !.pub = public_inputs,
                                   !.proof = proof])
    /\ ncalls' = ncalls + 1
    /\ UNCHANGED <<gen, cin, cout, ctx, sys, keys, setupRuns, setupRes, closed, workers,
                   processed>>

\* A sender suspended on a full channel is woken by a freed slot or by the close.
send_resume(c) ==
    /\ call[c].pc = "sending"
    /\ submit_task(closed, queue, TaskOf(call[c].op)).status # "full"
    /\ Submit(c, call[c])
    /\ UNCHANGED <<gen, cin, cout, ctx, sys, keys, setupRuns, setupRes, closed, workers,
                   processed, ncalls>>

\* A slip: the blocking pool runs one closure at a time, the next one only
\* after the previous result has been collected.
run_blocking_serialized(c) ==
    /\ call[c].pc = "blocking"
    /\ ctx = "running"
    /\ \A d \in Callers \ {c} : call[d].pc # "ran"
    /\ \E setupOk \in BOOLEAN :
        LET fresh == setupRuns + 1
            k == call[c]
            r == IF k.op = "vote_async"
                 THEN vote_async_closure(setupOk, fresh, keys.pk, k.circuit)
                 ELSE verify_async_closure(setupOk, fresh, keys.vk, k.pub, k.proof)
        IN  call' = [call EXCEPT ![c] = [k EXCEPT !.pc = "ran", !.handle = r]]
    /\ setupRuns' = setupRuns + 1
    /\ UNCHANGED <<gen, cin, cout, ctx, sys, keys, setupRes, queue, closed, workers,
                   processed, accepted, ncalls>>

\* A slip: the instance set up inside the closure is stored back into the
\* orchestrator (self.snark) for later calls.
run_blocking_stores_instance(c) ==
    /\ call[c].pc = "blocking"
    /\ ctx = "running"
    /\ \E setupOk \in BOOLEAN :
        LET fresh == setupRuns + 1
            k == call[c]
            r == IF k.op = "vote_async"
                 THEN vote_async_closure(setupOk, fresh, keys.pk, k.circuit)
                 ELSE verify_async_closure(setupOk, fresh, keys.vk, k.pub, k.proof)
        IN  /\ call' = [call EXCEPT ![c] = [k EXCEPT !.pc = "ran", !.handle = r]]
            /\ sys' = IF setupOk THEN [sys EXCEPT !.snark = fresh] ELSE sys
    /\ setupRuns' = setupRuns + 1
    /\ UNCHANGED <<gen, cin, cout, ctx, keys, setupRes, queue, closed, workers,
                   processed, accepted, ncalls>>

\* The closure runs on the blocking pool.
run_blocking(c) ==
    /\ call[c].pc = "blocking"
    /\ ctx = "running"
    /\ \E setupOk \in BOOLEAN :
        LET fresh == setupRuns + 1
            k == call[c]
            r == IF k.op = "vote_async"
                 THEN vote_async_closure(setupOk, fresh, keys.pk, k.circuit)
                 ELSE verify_async_closure(setupOk, fresh, keys.vk, k.pub, k.proof)
        IN  call' = [call EXCEPT ![c] = [k EXCEPT !.pc = "ran", !.handle = r]]
    /\ setupRuns' = setupRuns + 1
    /\ UNCHANGED <<gen, cin, cout, ctx, sys, keys, setupRes, queue, closed, workers,
                   processed, accepted, ncalls>>

\* The caller's .await on the JoinHandle completes.
join(c) ==
    /\ call[c].pc \in {"ran", "cancelled"}
    /\ call[c].ret # "abandoned"
    /\ call' = [call EXCEPT ![c] =
            [@ EXCEPT !.pc = "done",
                      !.result = join_result(call[c].pc = "ran", call[c].handle),
                      !.ret = IF call[c].pc = "ran" THEN "closure" ELSE "join"]]
    /\ UNCHANGED <<gen, cin, cout, ctx, sys, keys, setupRuns, setupRes, queue, closed,
                   workers, processed, accepted, ncalls>>

\* A slip: the worker does the cryptographic work the tag names, starting
\* with a setup of its own.
worker_recv_runs_setup(w) ==
    /\ workers[w] = "running"
    /\ queue # <<>>
    /\ queue' = Tail(queue)
    /\ processed' = processed + 1
    /\ setupRuns' = setupRuns + 1
    /\ UNCHANGED <<gen, cin, cout, ctx, sys, keys, setupRes, closed, workers,
                   accepted, call, ncalls>>

\* One turn of a worker's loop: receiver.recv().await yields a task, which is logged.
worker_recv(w) ==
    /\ workers[w] = "running"
    /\ queue # <<>>
    /\ queue' = Tail(queue)
    /\ processed' = processed + 1
    /\ UNCHANGED <<gen, cin, cout, ctx, sys, keys, setupRuns, setupRes, closed, workers,
                   accepted, call, ncalls>>

\* The scheduler shuts down: the worker tasks are dropped with their receivers,
\* which closes the channel, and closures not yet started are cancelled.
runtime_shutdown ==
    /\ ctx = "running"
    /\ sys.phase = "Ready"
    /\ ctx' = "shutdown"
    /\ closed' = TRUE
    /\ workers' = [w \in Workers |-> "cancelled"]
    /\ call' = [c \in Callers |->
                    IF call[c].pc = "blocking"
                    THEN [call[c] EXCEPT !.pc = "cancelled"]
                    ELSE call[c]]
    /\ UNCHANGED <<gen, cin, cout, sys, keys, setupRuns, setupRes, queue, processed,
                   accepted, ncalls>>

Next ==
    \/ setup
    \/ \E c \in Callers : vote(c)
    \/ \E c \in Callers : verify(c)
    \/ \E c \in Callers : vote_async(c)
    \/ \E c \in Callers : verify_async(c)
    \/ \E c \in Callers : send_resume(c)
    \/ \E c \in Callers : run_blocking(c)
    \/ \E c \in Callers : join(c)
    \/ \E w \in Workers : worker_recv(w)
    \/ runtime_shutdown

Spec == Init /\ [][Next]_vars

(***************************************************************************)
(* The environment of the asynchronous path: a caller may drop the future  *)
(* of a call it made, and the owner of the VoteSystem may drop it, which   *)
(* drops the only Sender of the channel.                                   *)
(***************************************************************************)
InFlight(k) == k.pc \in {"sending", "blocking", "ran", "cancelled"} /\ k.ret # "abandoned"

\* A slip: dropping the future also cancels a closure that has not started
\* (what JoinHandle::abort does for a cooperative task).
abandon_cancels(c) ==
    /\ InFlight(call[c])
    /\ call' = [call EXCEPT ![c] =
            CASE @.pc = "sending" -> [@ EXCEPT !.pc = "done", !.ret = "abandoned"]
              [] @.pc = "blocking" -> [@ EXCEPT !.pc = "cancelled", !.ret = "abandoned"]
              [] OTHER -> [@ EXCEPT !.ret = "abandoned"]]
    /\ UNCHANGED <<gen, cin, cout, ctx, sys, keys, setupRuns, setupRes, queue, closed,
                   workers, processed, accepted, ncalls>>

\* The caller drops the future of vote_async / verify_async.  A pending send
\* is dropped with it and enqueues nothing; a JoinHandle that is dropped
\* detaches the spawn_blocking closure, which stays scheduled.
abandon(c) ==
    /\ InFlight(call[c])
    /\ call' = [call EXCEPT ![c] =
            CASE @.pc = "sending" -> [@ EXCEPT !.pc = "done", !.ret = "abandoned"]
              [] OTHER -> [@ EXCEPT !.ret = "abandoned"]]
    /\ UNCHANGED <<gen, cin, cout, ctx, sys, keys, setupRuns, setupRes, queue, closed,
                   workers, processed, accepted, ncalls>>

\* The VoteSystem is dropped by its owner; no call borrows it any more.  The
\* Arc<WorkerPool> and with it the Sender go away.
drop_system ==
    /\ sys.phase = "Ready"
    /\ \A c \in Callers : ~InFlight(call[c])
    /\ sys' = [sys EXCEPT !.phase = "Dropped", !.pool = FALSE]
    /\ UNCHANGED <<gen, cin, cout, ctx, keys, setupRuns, setupRes, queue, closed,
                   workers, processed, accepted, call, ncalls>>

SenderDropped == sys.phase = "Dropped"

\* A slip: the worker leaves its loop as soon as it finds the queue empty.
worker_exit_when_idle(w) ==
    /\ workers[w] = "running"
    /\ queue = <<>>
    /\ workers' = [workers EXCEPT ![w] = "exited"]
    /\ closed' = (closed \/ \A v \in Workers \ {w} : workers[v] # "running")
    /\ UNCHANGED <<gen, cin, cout, ctx, sys, keys, setupRuns, setupRes, queue,
                   processed, accepted, call, ncalls>>

\* receiver.recv().await yields None, which ends the while-let loop: the
\* Sender is gone and the buffer is empty.
worker_exit(w) ==
    /\ workers[w] = "running"
    /\ SenderDropped
    /\ queue = <<>>
    /\ workers' = [workers EXCEPT ![w] = "exited"]
    /\ closed' = (closed \/ \A v \in Workers \ {w} : workers[v] # "running")
    /\ UNCHANGED <<gen, cin, cout, ctx, sys, keys, setupRuns, setupRes, queue,
                   processed, accepted, call, ncalls>>

NextLive ==
    \/ setup
    \/ \E c \in Callers : vote_async(c)
    \/ \E c \in Callers : verify_async(c)
    \/ \E c \in Callers : send_resume(c)
    \/ \E c \in Callers : run_blocking(c)
    \/ \E c \in Callers : join(c)
    \/ \E c \in Callers : abandon(c)
    \/ \E w \in Workers : worker_recv(w)
    \/ \E w \in Workers : worker_exit(w)
    \/ drop_system
    \/ runtime_shutdown

\* The blocking pool runs every closure handed to it, the scheduler polls a
\* caller whose JoinHandle is ready, and polls the workers.
Fairness ==
    /\ \A c \in Callers : WF_vars(run_blocking(c))
    /\ \A c \in Callers : WF_vars(join(c))
    /\ WF_vars(\E w \in Workers : worker_recv(w))

SpecLive == Init /\ [][NextLive]_vars /\ Fairness

NextCircuit == synthesize

SpecCircuit == InitCircuit /\ [][NextCircuit]_vars

(***************************************************************************)
(* generate_nullifier (lib.rs:241-259).  A user identifier is a string,    *)
(* here its UTF-8 bytes; the random value and the clock are what the       *)
(* caller's rng and the operating system hand to the call.                 *)
(***************************************************************************)
User1 == <<117, 115, 101, 114, 49>>
User2 == <<117, 115, 101, 114, 50>>
UserIds == {User1, User2}
RandomValues == {0, 1}
\* SystemTime::now() in whole seconds relative to UNIX_EPOCH; negative when
\* the system clock is set before 1970-01-01.
ClockValues == {-1, 0, 1}

\* u64::to_le_bytes yields 8 bytes.
U64Bytes == 8

RECURSIVE LEBytes(_, _)
LEBytes(n, k) == IF k = 0 THEN <<>> ELSE <<n % 256>> \o LEBytes(n \div 256, k - 1)
to_le_bytes(n) == LEBytes(n, U64Bytes)

\* duration_since(UNIX_EPOCH): Err when now is earlier than the epoch.
duration_since_epoch(now) ==
    IF now < 0 THEN [ok |-> FALSE, secs |-> 0] ELSE [ok |-> TRUE, secs |-> now]

\* A slip: the timestamp is not fed to the hasher.
HashInput_no_timestamp(user_id, rnd, secs) ==
    user_id \o to_le_bytes(rnd)

\* The three hasher.update calls: what the hasher has absorbed at finalize.
HashInput(user_id, rnd, secs) ==
    user_id \o to_le_bytes(rnd) \o to_le_bytes(secs)

\* The digests of the hash, as the integers their 32 bytes encode in
\* little-endian order.  The digest space is larger than the field (2^256
\* against a field order below 2^254), here twice the field order.
Digests == 0 .. (2 * FieldModulus - 1)

\* The hash is a function: an input hashed before has the digest it had; an
\* input not hashed before may have any digest.
Blake3(input) ==
    IF \E i \in DOMAIN gen : ~gen[i].panicked /\ gen[i].input = input
    THEN {gen[i].digest : i \in {j \in DOMAIN gen : ~gen[j].panicked /\ gen[j].input = input}}
    ELSE Digests

from_le_bytes_mod_order(digest) == digest % FieldModulus

\* The two calls that are compared.
GenCalls == {1, 2}

PanickedCall(user_id, rnd, now) ==
    [user |-> user_id, rnd |-> rnd, clock |-> now, panicked |-> TRUE,
     input |-> <<>>, digest |-> 0, out |-> 0]

generate_nullifier ==
    /\ Len(gen) < Cardinality(GenCalls)
    /\ \E user_id \in UserIds, rnd \in RandomValues, now \in ClockValues :
        LET d == duration_since_epoch(now)
        IN  IF ~d.ok
            THEN gen' = Append(gen, PanickedCall(user_id, rnd, now))
            ELSE LET input == HashInput(user_id, rnd, d.secs)
                 IN  \E digest \in Blake3(input) :
                        gen' = Append(gen,
                            [user |-> user_id, rnd |-> rnd, clock |-> now,
                             panicked |-> FALSE, input |-> input,
                             digest |-> digest,
                             out |-> from_le_bytes_mod_order(digest)])
    /\ UNCHANGED <<cin, cout, systemVars>>

InitNullifier == Init

NextNullifier == generate_nullifier

SpecNullifier == InitNullifier /\ [][NextNullifier]_vars

(***************************************************************************)
(* Properties.                                                             *)
(***************************************************************************)
Done(c) == call[c].pc = "done"
ValidVote(v) == v \in {FFrom(0), FFrom(1)}

\* C1: for every field value v, and any nullifier and randomness, synthesizing
\* VoteCircuit with vote = v succeeds, and the constraint system it builds is
\* satisfied if and only if v is 0 or 1.
C1_SatisfiedIffBinary ==
    cout.done => (cout.ok /\ (cout.sat <=> ValidVote(cin.vote)))

\* C1 witness: a circuit with vote = 2 and non-zero nullifier has been
\* synthesized, successfully, and its constraint system is not satisfied.
C1_Witness ==
    /\ cout.done /\ cout.ok /\ ~cout.sat
    /\ cin.vote = FFrom(2) /\ cin.nullifier # 0

\* C2 as stated: for every witness whose vote is not 0 or 1, vote and
\* vote_async both return ProofGenerationError.
C2_AlwaysProofGenerationError ==
    \A c \in Callers :
        (Done(c) /\ call[c].op \in {"vote", "vote_async"} /\ ~ValidVote(call[c].circuit.vote))
            => call[c].result = Err("ProofGenerationError")

\* C2 amended: for every witness whose vote is not 0 or 1, vote returns
\* ProofGenerationError; vote_async returns an error and never a proof, the
\* error being ProofGenerationError when the off-loaded proof attempt itself
\* reports, SnarkError when the setup run inside the closure fails, or
\* InternalError when the submission or the join fails.
C2_InvalidVoteNeverProves ==
    \A c \in Callers :
        LET k == call[c]
        IN  ~ValidVote(k.circuit.vote) =>
              /\ (Done(c) /\ k.op = "vote") => k.result = Err("ProofGenerationError")
              /\ (k.op = "vote_async") => k.handle.tag # "ok"
              /\ (Done(c) /\ k.op = "vote_async") =>
                    /\ k.result.tag = "err"
                    /\ k.result.proof = NoProof
                    /\ k.result.err \in {"ProofGenerationError", "SnarkError", "InternalError"}
                    /\ (k.result.err = "InternalError") <=> (k.ret \in {"submit", "join"})

\* C2 witness: a vote_async call with vote = 2 has run its closure, been
\* joined, and returned ProofGenerationError.
C2_Witness ==
    \E c \in Callers :
        /\ Done(c) /\ call[c].op = "vote_async" /\ call[c].circuit.vote = FFrom(2)
        /\ call[c].ret = "closure"
        /\ call[c].result = Err("ProofGenerationError")

\* Proofs that vote returns for the valid witnesses under the keys of setup.
SyncProofs ==
    {VoteSystem_vote(sys.snark, keys.pk, ci).proof :
        ci \in {x \in CircuitInputs : ValidVote(x.vote)}}

\* C3: completeness: a proof that vote returned under the proving key of setup
\* verifies to true under the verifying key of the same setup with the empty
\* public-input vector.
C3_Completeness ==
    \A c \in Callers :
        LET k == call[c]
        IN  /\ (Done(c) /\ k.op = "vote" /\ k.result.tag = "ok") =>
                  /\ ValidVote(k.circuit.vote)
                  /\ VoteSystem_verify(sys.snark, keys.vk, <<>>, k.result.proof) = OkBool(TRUE)
            /\ (Done(c) /\ k.op = "verify" /\ k.pub = <<>> /\ k.proof \in SyncProofs) =>
                  k.result = OkBool(TRUE)

\* C3 witness: one caller holds a proof returned by vote and another caller's
\* verify of that proof with the empty input vector returned true.
C3_Witness ==
    \E c, d \in Callers :
        /\ Done(c) /\ call[c].op = "vote" /\ call[c].result.tag = "ok"
        /\ Done(d) /\ call[d].op = "verify" /\ call[d].pub = <<>>
        /\ call[d].proof = call[c].result.proof
        /\ call[d].result = OkBool(TRUE)

\* C4 as stated: once setup has succeeded, proof-system setup is never run
\* again: S::setup has been invoked exactly once per orchestrator.
C4_SetupExactlyOnce ==
    sys.phase = "Ready" => setupRuns = 1

\* C5 as stated: a dispatched vote_async fails only with ProofGenerationError
\* or, when the join failed, with InternalError, and otherwise succeeds exactly
\* when vote succeeds on the same key and witness; verify_async relates to
\* verify in the same way with ProofVerificationError.
C5_AsyncMatchesSync ==
    \A c \in Callers :
        LET k == call[c]
            dispatched == Done(c) /\ k.ret # "submit"
            joinFailed == k.result = Err("InternalError") /\ k.ret = "join"
        IN  /\ (dispatched /\ k.op = "vote_async" /\ ~joinFailed) =>
                  /\ k.result.tag = "err" => k.result.err = "ProofGenerationError"
                  /\ (k.result.tag = "ok")
                        <=> (VoteSystem_vote(sys.snark, keys.pk, k.circuit).tag = "ok")
            /\ (dispatched /\ k.op = "verify_async" /\ ~joinFailed) =>
                  /\ k.result.tag = "err" => k.result.err = "ProofVerificationError"
                  /\ (k.result.tag = "ok")
                        <=> (VoteSystem_verify(sys.snark, keys.vk, k.pub, k.proof).tag = "ok")

WellFormedInputs(k) == k.proof.wf /\ Len(k.pub) = keys.vk.ninputs

\* C6 as stated: verify and verify_async return Ok(false), not an error, for a
\* well-formed but cryptographically invalid proof.
C6_InvalidProofIsFalse ==
    \A c \in Callers :
        LET k == call[c]
        IN  (Done(c) /\ k.op \in {"verify", "verify_async"}
                /\ k.proof = ForgedProof /\ WellFormedInputs(k))
                => k.result = OkBool(FALSE)

\* C6 amended: for a well-formed but cryptographically invalid proof verify
\* returns Ok(false); verify_async returns Ok(false) unless the submission or
\* the join fails (InternalError) or the setup run inside its closure fails
\* (SnarkError); neither returns ProofVerificationError unless the inputs are
\* malformed (wrong-length public-input vector or corrupt proof encoding).
C6_InvalidProofNeverVerificationError ==
    \A c \in Callers :
        LET k == call[c]
        IN  (Done(c) /\ k.op \in {"verify", "verify_async"}) =>
              /\ (k.result = Err("ProofVerificationError")) => ~WellFormedInputs(k)
              /\ (k.proof = ForgedProof /\ WellFormedInputs(k)) =>
                    /\ k.op = "verify" => k.result = OkBool(FALSE)
                    /\ k.op = "verify_async" =>
                          k.result \in {OkBool(FALSE), Err("InternalError"), Err("SnarkError")}

\* C6 witness: a synchronous verify of the forged, well-formed proof with the
\* empty input vector has returned Ok(false).
C6_Witness ==
    \E c \in Callers :
        /\ Done(c) /\ call[c].op = "verify"
        /\ call[c].proof = ForgedProof /\ call[c].pub = <<>>
        /\ call[c].result = OkBool(FALSE)

\* C7: soundness: verify given a proof together with a public-input vector that
\* does not match the one the proof was produced for returns false or
\* ProofVerificationError: it returns a value, and never true.
C7_Soundness ==
    \A c \in Callers :
        LET k == call[c]
        IN  (Done(c) /\ k.op = "verify" /\ k.pub # k.proof.inputs) =>
                k.result \in {OkBool(FALSE), Err("ProofVerificationError")}

\* C7 witness: verify of a proof that vote produced, given a one-element input
\* vector, has returned ProofVerificationError.
C7_Witness ==
    \E c \in Callers :
        /\ Done(c) /\ call[c].op = "verify"
        /\ call[c].proof \in SyncProofs /\ call[c].pub = <<FFrom(1)>>
        /\ call[c].result = Err("ProofVerificationError")

QueueAccounting ==
    /\ Len(queue) <= QueueCapacity
    /\ accepted = Len(queue) + processed

\* What a submitter may do in one step: enter suspension only on a full open
\* queue, and leave it only by enqueueing its task into a free slot or by
\* returning an error from a closed queue.
SubmitterStep ==
    \A c \in Callers :
        /\ (call[c].pc # "sending" /\ call'[c].pc = "sending") =>
              /\ Len(queue) = QueueCapacity /\ ~closed
              /\ queue' = queue
        /\ (call[c].pc = "sending" /\ call'[c] # call[c]) =>
              \/ /\ call'[c].pc = "blocking"
                 /\ Len(queue) < QueueCapacity
                 /\ queue' = Append(queue, TaskOf(call[c].op))
                 /\ accepted' = accepted + 1
              \/ /\ call'[c].pc = "done"
                 /\ call'[c].result.tag = "err"
                 /\ closed

C9_SubmitFailureIsDispatchError ==
    \A c \in Callers :
        (Done(c) /\ call[c].ret = "submit") =>
            /\ closed
            /\ call[c].result = Err("DispatchError")

NothingCreated ==
    /\ keys = NoKeys
    /\ sys.snark = 0 /\ ~sys.pool
    /\ \A w \in Workers : workers[w] = "none"
    /\ queue = <<>> /\ accepted = 0

\* C10: setup is all-or-nothing: when parameter or key generation fails it
\* returns an error and no orchestrator, keys, pool or worker exists; when it
\* returns Ok the keys exist and the pool with all its workers has been
\* constructed; no other state is reachable.
C10_SetupAllOrNothing ==
    /\ sys.phase \in {"Uninitialized", "Failed", "Panicked", "Ready"}
    /\ (setupRes.tag = "ok") <=> (sys.phase = "Ready")
    /\ (setupRes.tag = "err") <=> (sys.phase = "Failed")
    /\ sys.phase # "Ready" => NothingCreated
    /\ sys.phase = "Ready" =>
          /\ sys.snark # 0 /\ sys.pool
          /\ keys = SnarkKeygen(sys.snark) /\ keys # NoKeys
          /\ \A w \in Workers : workers[w] # "none"

\* C10 witness: setup has run and returned SnarkError.
C10_Witness ==
    /\ sys.phase = "Failed" /\ setupRuns = 1
    /\ setupRes = Err("SnarkError")


\* C11: from Ready, every step of vote, vote_async, verify and verify_async,
\* whether the call succeeds or fails, leaves the orchestrator in Ready with
\* its proof-system instance and the proving and verifying keys as setup
\* produced them.
C11_ReadyStateUnchanged ==
    /\ [](sys.phase = "Ready" =>
            /\ sys.snark = 1 /\ sys.pool
            /\ keys = SnarkKeygen(1))
    /\ [][sys.phase = "Ready" => (sys' = sys /\ keys' = keys)]_vars

\* C11 witness: the orchestrator is Ready after one asynchronous call has failed
\* and one synchronous call has returned a proof.
C11_Witness ==
    /\ sys.phase = "Ready"
    /\ \E c, d \in Callers :
        /\ Done(c) /\ call[c].op \in {"vote_async", "verify_async"}
        /\ call[c].result.tag = "err" /\ call[c].ret = "closure"
        /\ Done(d) /\ call[d].op = "vote" /\ call[d].result.tag = "ok"

Dispatched(k) ==
    \/ k.pc \in {"blocking", "ran", "cancelled"}
    \/ k.pc = "done" /\ k.ret \in {"closure", "join"}

\* C12: in vote_async and verify_async the tagged task has been accepted by the
\* dispatcher before the off-loaded computation is started; when the
\* submission fails the call returns an error and no computation is started
\* for it.
C12_SubmitBeforeCompute ==
    /\ [](\A c \in Callers :
            LET k == call[c]
            IN  /\ (k.pc = "done" /\ k.ret = "submit") =>
                      /\ k.result.tag = "err"
                      /\ k.handle = NoResult
                /\ k.pc \in {"idle", "sending"} => k.handle = NoResult
                /\ Dispatched(k) => accepted >= 1)
    /\ [][\A c \in Callers :
            /\ (~Dispatched(call[c]) /\ Dispatched(call'[c])) =>
                  /\ call'[c].pc = "blocking"
                  /\ ~closed
                  /\ queue' = Append(queue, TaskOf(call'[c].op))
                  /\ accepted' = accepted + 1
                  /\ setupRuns' = setupRuns
            /\ (call'[c].handle # call[c].handle /\ call'[c].handle # NoResult) =>
                  call[c].pc = "blocking"
            /\ (call'[c].pc = "done" /\ call'[c].ret = "submit" /\ call[c].pc # "done") =>
                  /\ closed
                  /\ setupRuns' = setupRuns
                  /\ queue' = queue]_vars

\* C12 witness: a vote_async call found the channel closed and returned an
\* error without its closure ever having been started.
C12_Witness ==
    \E c \in Callers :
        /\ Done(c) /\ call[c].op = "vote_async" /\ call[c].ret = "submit"
        /\ call[c].result.tag = "err" /\ call[c].handle = NoResult


Abandoned(c) == call[c].ret = "abandoned"

\* C14 as stated: the off-loaded computation of a dispatched call is never
\* cancelled.
C14_NeverCancelled ==
    \A c \in Callers : call[c].pc # "cancelled"

\* C14 amended: under fair scheduling every dispatched call that is still
\* awaited returns, and every closure handed to the blocking pool runs or is
\* cancelled by the shutdown of the runtime whether or not it is awaited;
\* nothing but the shutdown of the runtime cancels a closure, only one that
\* has not started, and the awaiting caller then gets InternalError.
C14_DispatchedCompletes ==
    /\ \A c \in Callers :
        (Dispatched(call[c]) /\ ~Abandoned(c)) ~> (Done(c) \/ Abandoned(c))
    /\ \A c \in Callers :
        (call[c].pc = "blocking") ~> (call[c].pc \in {"ran", "cancelled", "done"})
    /\ [][\A c \in Callers :
            /\ (call'[c].pc = "cancelled" /\ call[c].pc # "cancelled") =>
                  /\ call[c].pc = "blocking"
                  /\ ctx = "running" /\ ctx' = "shutdown"
            /\ (call[c].pc = "ran") =>
                  /\ call'[c].pc \in {"ran", "done"}
                  /\ call'[c].handle = call[c].handle]_vars
    /\ [](\A c \in Callers :
            (Done(c) /\ call[c].ret = "join") =>
                call[c].result = Err("InternalError"))

\* C14 witness: the caller stopped waiting while the closure was queued on
\* the blocking pool, and the closure ran all the same.
C14_Witness ==
    \E c \in Callers :
        /\ call[c].pc = "ran" /\ Abandoned(c)
        /\ call[c].handle # NoResult
        /\ ctx = "running"

ClosureStarted(c) == call[c].handle # NoResult

\* C15: proof work is neither deduplicated nor serialized across callers:
\* every dispatched call has its own accepted task and its own computation,
\* also when the witnesses are identical, and a closure handed to the
\* blocking pool can run whatever the state of the other callers' calls.
C15_IndependentProofWork ==
    /\ [](\A c \in Callers :
            /\ (call[c].pc = "blocking" /\ ctx = "running") => ENABLED run_blocking(c)
            /\ accepted >= Cardinality({d \in Callers : Dispatched(call[d])})
            /\ setupRuns >= Cardinality({d \in Callers : ClosureStarted(d)})
                            + (IF sys.phase = "Ready" THEN 1 ELSE 0))
    /\ [][\A c \in Callers :
            (ClosureStarted(c)' /\ ~ClosureStarted(c)) =>
                /\ setupRuns' = setupRuns + 1
                /\ \A d \in Callers \ {c} : call'[d] = call[d]]_vars

\* C15 witness: two vote_async calls with the same witness were both accepted
\* by the dispatcher; one has completed while the closure of the other has
\* not started.
C15_Witness ==
    \E c, d \in Callers :
        /\ c # d
        /\ call[c].op = "vote_async" /\ call[d].op = "vote_async"
        /\ call[c].circuit = call[d].circuit
        /\ call[c].pc = "blocking"
        /\ Done(d) /\ call[d].ret = "closure"
        /\ accepted = 2

ReturnedProof(c, ops) ==
    /\ Done(c) /\ call[c].op \in ops
    /\ call[c].result.tag = "ok"
    /\ ValidVote(call[c].circuit.vote)
VerifiesTrue(proof) ==
    VoteSystem_verify(sys.snark, keys.vk, <<>>, proof) = OkBool(TRUE)

\* C16: nullifier novelty is not enforced: whenever two vote or vote_async
\* calls with the same nullifier and valid votes have returned proofs, both
\* proofs verify to true.
C16_SameNullifierBothAccepted ==
    \A c, d \in Callers :
        (/\ c # d
         /\ ReturnedProof(c, {"vote", "vote_async"})
         /\ ReturnedProof(d, {"vote", "vote_async"})
         /\ call[c].circuit.nullifier = call[d].circuit.nullifier) =>
            VerifiesTrue(call[c].result.proof) /\ VerifiesTrue(call[d].result.proof)

\* The synchronous half of C16, which holds: two vote calls with the same
\* nullifier both return proofs that verify to true.
SyncSameNullifierBothAccepted ==
    \A c, d \in Callers :
        (/\ c # d
         /\ Done(c) /\ call[c].op = "vote" /\ ValidVote(call[c].circuit.vote)
         /\ Done(d) /\ call[d].op = "vote" /\ ValidVote(call[d].circuit.vote)
         /\ call[c].circuit.nullifier = call[d].circuit.nullifier) =>
            /\ call[c].result.tag = "ok" /\ VerifiesTrue(call[c].result.proof)
            /\ call[d].result.tag = "ok" /\ VerifiesTrue(call[d].result.proof)

DifferOnlyInVote(c, d) ==
    /\ c # d
    /\ call[c].op = call[d].op
    /\ ReturnedProof(c, {"vote", "vote_async"})
    /\ ReturnedProof(d, {"vote", "vote_async"})
    /\ call[c].circuit.vote # call[d].circuit.vote
    /\ call[c].circuit.nullifier = call[d].circuit.nullifier
    /\ call[c].circuit.randomness = call[d].circuit.randomness

\* C18: for two runs that differ only in the private vote (0 against 1), the
\* public inputs carried with the proofs are the same and verify returns the
\* same result for both proofs, whatever public-input vector it is given.
C18_VoteNotObservable ==
    \A c, d \in Callers :
        DifferOnlyInVote(c, d) =>
            /\ call[c].result.proof.inputs = call[d].result.proof.inputs
            /\ \A pub \in PublicInputChoices :
                VoteSystem_verify(sys.snark, keys.vk, pub, call[c].result.proof)
                    = VoteSystem_verify(sys.snark, keys.vk, pub, call[d].result.proof)

\* C18 witness: a vote for 0 and a vote for 1 with the same nullifier and
\* randomness have both returned proofs that verify to true on [].
C18_Witness ==
    \E c, d \in Callers :
        /\ DifferOnlyInVote(c, d)
        /\ call[c].op = "vote"
        /\ call[c].circuit.vote = FFrom(0) /\ call[d].circuit.vote = FFrom(1)
        /\ VerifiesTrue(call[c].result.proof) /\ VerifiesTrue(call[d].result.proof)

ClosureOutcomes(k) ==
    {join_result(TRUE,
        IF k.op = "vote_async"
        THEN vote_async_closure(ok, fresh, keys.pk, k.circuit)
        ELSE verify_async_closure(ok, fresh, keys.vk, k.pub, k.proof)) :
            ok \in BOOLEAN, fresh \in 2 .. setupRuns}

\* C20: a worker that processes a tag only removes it from the queue: it
\* runs no setup, proof or verification and touches neither the orchestrator,
\* the keys nor any call; the result of a vote_async or verify_async call is
\* what its own closure computed from the call's inputs, whether or not its
\* tag has been processed.
C20_WorkerOnlyDequeues ==
    /\ [][processed' # processed =>
            /\ queue' = Tail(queue)
            /\ UNCHANGED <<sys, keys, setupRuns, setupRes, call, ncalls,
                           accepted, closed, workers, ctx>>]_vars
    /\ [](\A c \in Callers :
            (Done(c) /\ call[c].ret = "closure") =>
                call[c].result \in ClosureOutcomes(call[c]))
    /\ [](\A c \in Callers :
            (call[c].pc = "blocking" /\ ctx = "running") =>
                ENABLED (run_blocking(c) /\ processed' = processed /\ queue' = queue))

\* C20 witness: two asynchronous calls have returned through their closures;
\* the tag of one has been dequeued by a worker, the tag of the other is
\* still in the queue.
C20_Witness ==
    /\ processed = 1 /\ accepted = 2 /\ Len(queue) = 1
    /\ \A c \in Callers :
        /\ Done(c) /\ call[c].ret = "closure"
        /\ call[c].op \in {"vote_async", "verify_async"}

Returned(i) == i \in DOMAIN gen /\ ~gen[i].panicked
Triple(i) == <<gen[i].user, gen[i].rnd, gen[i].clock>>

\* C13: no public operation panics; in particular generate_nullifier returns
\* a value for every user identifier, random value and clock value.
C13_NullifierNeverPanics ==
    \A i \in DOMAIN gen : ~gen[i].panicked

\* C17 as stated: two generate_nullifier calls whose (user_id, random value,
\* timestamp) triples differ return different field elements.
C17_DistinctTriplesDistinctNullifiers ==
    \A i, j \in DOMAIN gen :
        (Returned(i) /\ Returned(j) /\ Triple(i) # Triple(j)) =>
            gen[i].out # gen[j].out

\* C17 amended: two calls whose triples differ hash different byte strings and
\* two calls with the same triple return the same element; the elements
\* returned by two calls are equal exactly when the two digests are congruent
\* modulo the field order.
C17_NullifierFreshness ==
    \A i, j \in DOMAIN gen :
        (Returned(i) /\ Returned(j)) =>
            /\ (Triple(i) # Triple(j)) => gen[i].input # gen[j].input
            /\ (Triple(i) = Triple(j)) => gen[i].out = gen[j].out
            /\ (gen[i].input = gen[j].input) => gen[i].digest = gen[j].digest
            /\ (gen[i].out = gen[j].out) <=>
                    (gen[i].digest % FieldModulus = gen[j].digest % FieldModulus)
            /\ gen[i].out \in Field

\* C17 witness: two calls for the same user in the same second with different
\* random values returned different nullifiers.
C17_Witness ==
    /\ Len(gen) = 2 /\ Returned(1) /\ Returned(2)
    /\ gen[1].user = User1 /\ gen[2].user = User1
    /\ gen[1].clock = gen[2].clock
    /\ gen[1].rnd # gen[2].rnd
    /\ gen[1].out # gen[2].out


\* C21: setup called with no cooperative scheduler running, whose parameter
\* and key generation succeed, returns the Ready orchestrator with its keys
\* and a constructed dispatcher; constructing the worker pool does not make
\* setup fail or panic.
C21_SetupWithoutSchedulerIsReady ==
    (ctx = "none" /\ sys.phase \notin {"Uninitialized", "Failed"}) =>
        /\ sys.phase = "Ready"
        /\ setupRes = OkUnit
        /\ keys # NoKeys /\ sys.pool

====
